---------------------------- MODULE Spec2Model ----------------------------
(* A model of src/app.py: the drawing state machine of process_frame, the  *)
(* two shape classifiers, the gesture detectors, and the camera_loop that  *)
(* drives them and hands shape events to socketio.                         *)
(*                                                                         *)
(* Numbers.  Normalised image coordinates are floats in the program.  Here *)
(* a coordinate is an integer number of grid steps, the value v standing   *)
(* for v / Scale.  Every threshold comparison of the classifiers is done   *)
(* exactly on these rationals (distances are compared squared).  Two       *)
(* places cannot be decided exactly and are left open, as a set of         *)
(* possible outcomes: a comparison whose two sides are exactly equal (the  *)
(* binary floats of the program round such a tie either way), and the      *)
(* std/mean test of check_circle_shape when integer bounds on the sum of   *)
(* square roots do not decide it.  A centre is kept doubled, <<min+max of  *)
(* x, min+max of y>>, standing for ((min+max)/2) / Scale.                  *)
(*                                                                         *)
(* Python's None is the empty tuple; a 2-tuple or a dict {'x','y'} is a    *)
(* 2-tuple.                                                                *)
EXTENDS Integers, Sequences, FiniteSets, TLC

VARIABLES
    drawing_state,      \* app.py:34   'IDLE' | 'DRAWING'
    drawing_points,     \* app.py:33   the trajectory buffer
    spawn_fruit,        \* process_frame's third result, kept by camera_loop
    spawn_banana,       \* process_frame's fourth result, kept by camera_loop
    checks,             \* process_frame's locals is_crescent / is_circle
    frame,              \* camera_loop's local frame: what cap.read() returned
    pc,                 \* where the camera thread is
    is_running,         \* app.py:28
    failed_reads,       \* camera_loop's local counter
    latest_frame,       \* app.py:26
    clients_seen,       \* the value of connected_clients read at app.py:380
    emitted,            \* the socketio.emit calls of the latest iteration
    connected_clients,  \* app.py:31
    handler,            \* per client: where its connect/disconnect handler is
    frame_lock,         \* app.py:27   None, or who holds the lock
    viewer,             \* per /video_feed response: where its generate_frames is
    pre_state,          \* history: drawing_state when process_frame was entered
    pre_points,         \* history: drawing_points when process_frame was entered
    trail,              \* history: fingertips of the POINTING frames since DRAWING was entered
    stroke,             \* environment: the trajectory the hand is tracing
    world               \* environment: the trajectories and hand poses there are

vars == <<drawing_state, drawing_points, spawn_fruit, spawn_banana, checks,
          frame, pc, is_running, failed_reads, latest_frame, clients_seen,
          emitted, connected_clients, handler, frame_lock, viewer, pre_state,
          pre_points, trail, stroke, world>>

None == <<>>

Truthy(v) == v # None

-----------------------------------------------------------------------------
(* Bounds of the model and constants of the program.                       *)

Scale == 100

BufferCap == 200

MaxFailedReads == 30

MaxTrail == 250

MaxFree == 3

NumClients == 2

NumViewers == 2

MaxHeld == 10

MaxCount == 2

-----------------------------------------------------------------------------
(* Arithmetic helpers.                                                     *)

Min2(a, b) == IF a < b THEN a ELSE b

Max2(a, b) == IF a > b THEN a ELSE b

\* the least and the greatest of s[lo][k] .. s[hi][k], halving the range
RECURSIVE SeqMin(_, _, _, _)
SeqMin(s, k, lo, hi) ==
    IF lo >= hi THEN s[lo][k]
    ELSE LET mid == (lo + hi) \div 2
         IN  Min2(SeqMin(s, k, lo, mid), SeqMin(s, k, mid + 1, hi))

RECURSIVE SeqMax(_, _, _, _)
SeqMax(s, k, lo, hi) ==
    IF lo >= hi THEN s[lo][k]
    ELSE LET mid == (lo + hi) \div 2
         IN  Max2(SeqMax(s, k, lo, mid), SeqMax(s, k, mid + 1, hi))

\* np.min / np.max of one coordinate column (k = 1 for x, 2 for y)
NpMin(points, k) == SeqMin(points, k, 1, Len(points))

NpMax(points, k) == SeqMax(points, k, 1, Len(points))

\* floor of the square root, by bisection on lo..hi (lo*lo <= n < (hi+1)^2)
RECURSIVE SqrtBetween(_, _, _)
SqrtBetween(n, lo, hi) ==
    IF lo >= hi THEN lo
    ELSE LET mid == (lo + hi + 1) \div 2
         IN  IF mid * mid <= n THEN SqrtBetween(n, mid, hi)
             ELSE SqrtBetween(n, lo, mid - 1)

FloorSqrt(n) == SqrtBetween(n, 0, Min2(n, 46340))

CeilSqrt(n) == LET r == FloorSqrt(n) IN IF r * r = n THEN r ELSE r + 1

\* The outcomes of a float comparison a < b whose exact sides are a and b.
FloatLt(a, b) == IF a < b THEN {TRUE} ELSE IF a = b THEN {TRUE, FALSE} ELSE {FALSE}

FloatGt(a, b) == FloatLt(b, a)

-----------------------------------------------------------------------------
(* calculate_distance, calculate_distance_2d: the squares of the distances *)

SqDistance(p1, p2) ==
    (p1.x - p2.x) * (p1.x - p2.x) + (p1.y - p2.y) * (p1.y - p2.y)
        + (p1.z - p2.z) * (p1.z - p2.z)

SqDistance2d(p1, p2) ==
    (p1[1] - p2[1]) * (p1[1] - p2[1]) + (p1[2] - p2[2]) * (p1[2] - p2[2])

-----------------------------------------------------------------------------
(* Gesture detection, app.py:84-109.  A hand is a function from landmark   *)
(* index to a 3D point [x, y, z]; the wrist is landmark 0.                 *)

\* is_finger_extended with tip_dist >= pip_dist
is_finger_extended_or_level(landmarks, finger_tip_id, finger_pip_id, wrist) ==
    LET tip == landmarks[finger_tip_id]
        pip == landmarks[finger_pip_id]
        tip_dist == SqDistance(tip, wrist)
        pip_dist == SqDistance(pip, wrist)
    IN  tip_dist >= pip_dist

\* tip_dist > pip_dist; the square root is monotone, so the squares decide
is_finger_extended(landmarks, finger_tip_id, finger_pip_id, wrist) ==
    LET tip == landmarks[finger_tip_id]
        pip == landmarks[finger_pip_id]
        tip_dist == SqDistance(tip, wrist)
        pip_dist == SqDistance(pip, wrist)
    IN  tip_dist > pip_dist

detect_index_pointing(landmarks) ==
    LET wrist == landmarks[0]
        index_extended == is_finger_extended(landmarks, 8, 6, wrist)
        middle_extended == is_finger_extended(landmarks, 12, 10, wrist)
        ring_extended == is_finger_extended(landmarks, 16, 14, wrist)
        pinky_extended == is_finger_extended(landmarks, 20, 18, wrist)
    IN  index_extended /\ ~middle_extended /\ ~ring_extended /\ ~pinky_extended

\* detect_fist with the pinky left out
detect_fist_without_pinky(landmarks) ==
    LET wrist == landmarks[0]
        index_extended == is_finger_extended(landmarks, 8, 6, wrist)
        middle_extended == is_finger_extended(landmarks, 12, 10, wrist)
        ring_extended == is_finger_extended(landmarks, 16, 14, wrist)
    IN  ~index_extended /\ ~middle_extended /\ ~ring_extended

detect_fist(landmarks) ==
    LET wrist == landmarks[0]
        index_extended == is_finger_extended(landmarks, 8, 6, wrist)
        middle_extended == is_finger_extended(landmarks, 12, 10, wrist)
        ring_extended == is_finger_extended(landmarks, 16, 14, wrist)
        pinky_extended == is_finger_extended(landmarks, 20, 18, wrist)
    IN  ~index_extended /\ ~middle_extended /\ ~ring_extended /\ ~pinky_extended

-----------------------------------------------------------------------------
(* The shape classifiers, app.py:111-194.  A result is the pair the        *)
(* function returns, [ok, center], with a mark zero_division that tells    *)
(* whether a division by zero was evaluated on the way; a classifier       *)
(* yields the set of results the floats of the program can produce for the *)
(* exact trajectory.                                                       *)

Negative == [ok |-> FALSE, center |-> None, zero_division |-> FALSE]

Positive(center) == [ok |-> TRUE, center |-> center, zero_division |-> FALSE]

\* a quotient of numpy floats with denominator 0 is nan or inf (and a
\* RuntimeWarning); every comparison with nan is false
ZeroDivision == [ok |-> FALSE, center |-> None, zero_division |-> TRUE]

\* "x / d" followed by the rest
Dividing(d, rest) == IF d = 0 THEN {ZeroDivision} ELSE rest

\* "if c: return then" followed by the rest, c a set of possible outcomes
Branch(c, then, rest) == UNION {IF b THEN then ELSE rest : b \in c}

EitherOf(c1, c2) == {a \/ b : a \in c1, b \in c2}

Width(points) == NpMax(points, 1) - NpMin(points, 1)

Height(points) == NpMax(points, 2) - NpMin(points, 2)

\* BoxCenter taken between the first and the last point
BoxCenterOfEnds(points) == <<points[1][1] + points[Len(points)][1],
                             points[1][2] + points[Len(points)][2]>>

\* (center_x, center_y), doubled
BoxCenter(points) == <<NpMin(points, 1) + NpMax(points, 1),
                       NpMin(points, 2) + NpMax(points, 2)>>

\* calculate_distance_2d(points[0], points[-1]), squared
SqClosure(points) == SqDistance2d(points[1], points[Len(points)])

\* the distance of point i to the centre c, doubled and squared
SqRadius(points, c, i) == SqDistance2d(<<2 * points[i][1], 2 * points[i][2]>>, c)

\* sums over the points lo .. hi, halving the range
RECURSIVE SumSqRadius(_, _, _, _)
SumSqRadius(points, c, lo, hi) ==
    IF lo > hi THEN 0
    ELSE IF lo = hi THEN SqRadius(points, c, lo)
    ELSE LET mid == (lo + hi) \div 2
         IN  SumSqRadius(points, c, lo, mid) + SumSqRadius(points, c, mid + 1, hi)

RECURSIVE SumRadiusLow(_, _, _, _)
SumRadiusLow(points, c, lo, hi) ==
    IF lo > hi THEN 0
    ELSE IF lo = hi THEN FloorSqrt(SqRadius(points, c, lo))
    ELSE LET mid == (lo + hi) \div 2
         IN  SumRadiusLow(points, c, lo, mid) + SumRadiusLow(points, c, mid + 1, hi)

RECURSIVE SumRadiusHigh(_, _, _, _)
SumRadiusHigh(points, c, lo, hi) ==
    IF lo > hi THEN 0
    ELSE IF lo = hi THEN CeilSqrt(SqRadius(points, c, lo))
    ELSE LET mid == (lo + hi) \div 2
         IN  SumRadiusHigh(points, c, lo, mid) + SumRadiusHigh(points, c, mid + 1, hi)

\* distance_variance < 0.5, app.py:143-147.  With n distances d, sum S and
\* sum of squares Q: std/mean < 1/2  <=>  4*n*Q < 5*S*S.  S is a sum of
\* square roots, known here between two integers.  mean_distance = 0 makes
\* distance_variance 1.
RadialSpreadLow(points) ==
    LET n == Len(points)
        c == BoxCenter(points)
        q == SumSqRadius(points, c, 1, n)
        lo == SumRadiusLow(points, c, 1, n)
        hi == SumRadiusHigh(points, c, 1, n)
    IN  IF q = 0 THEN {FALSE}
        ELSE IF 4 * n * q < 5 * lo * lo THEN {TRUE}
        ELSE IF 4 * n * q > 5 * hi * hi THEN {FALSE}
        ELSE {TRUE, FALSE}

\* check_circle_shape with the test of the box size left out
check_circle_shape_any_size(points) ==
    IF Len(points) < 10 THEN {Negative}
    ELSE
    LET width == Width(points)
        height == Height(points)
        center == BoxCenter(points)
        closure == SqClosure(points)
    IN  Dividing(Max2(width, height),
        Branch(FloatLt(Min2(width, height) * 10, 6 * Max2(width, height)), {Negative},
        Branch(FloatGt(64 * closure, (width + height) * (width + height)), {Negative},
        {IF is_circle THEN Positive(center) ELSE Negative :
            is_circle \in RadialSpreadLow(points)})))

check_circle_shape(points) ==
    IF Len(points) < 10 THEN {Negative}
    ELSE
    LET width == Width(points)
        height == Height(points)
        center == BoxCenter(points)
        closure == SqClosure(points)
    IN  Branch(EitherOf(FloatLt(width * 100, 5 * Scale),
                        FloatLt(height * 100, 5 * Scale)), {Negative},
        \* aspect_ratio = min(width, height) / max(width, height)
        Dividing(Max2(width, height),
        \* aspect_ratio < 0.6
        Branch(FloatLt(Min2(width, height) * 10, 6 * Max2(width, height)), {Negative},
        \* closure_distance > avg_radius * 0.5, avg_radius = (width + height) / 4
        Branch(FloatGt(64 * closure, (width + height) * (width + height)), {Negative},
        {IF is_circle THEN Positive(center) ELSE Negative :
            is_circle \in RadialSpreadLow(points)}))))

\* check_crescent_shape with the bow test left out
check_crescent_shape_without_bow(points) ==
    IF Len(points) < 8 THEN {Negative}
    ELSE
    LET width == Width(points)
        height == Height(points)
        center == BoxCenter(points)
        closure == SqClosure(points)
    IN  Branch(EitherOf(FloatLt(width * 100, 3 * Scale),
                        FloatLt(height * 100, 3 * Scale)), {Negative},
        Dividing(Max2(width, height),
        Branch(EitherOf(FloatLt(Min2(width, height) * 10, 2 * Max2(width, height)),
                        FloatGt(Min2(width, height) * 100, 75 * Max2(width, height))),
               {Negative},
        Branch(FloatLt(1600 * closure, 9 * (width + height) * (width + height)), {Negative},
        {Positive(center)}))))

\* check_crescent_shape with a minimum of 5 points
check_crescent_shape_from_5(points) ==
    IF Len(points) < 5 THEN {Negative}
    ELSE
    LET width == Width(points)
        height == Height(points)
        center == BoxCenter(points)
        start_point == points[1]
        end_point == points[Len(points)]
        closure == SqClosure(points)
        mid_idx == Len(points) \div 2
        mid_point == points[mid_idx + 1]
        line_m == <<start_point[1] + end_point[1], start_point[2] + end_point[2]>>
        mid_offset == SqDistance2d(<<2 * mid_point[1], 2 * mid_point[2]>>, line_m)
    IN  Branch(EitherOf(FloatLt(width * 100, 3 * Scale),
                        FloatLt(height * 100, 3 * Scale)), {Negative},
        Dividing(Max2(width, height),
        Branch(EitherOf(FloatLt(Min2(width, height) * 10, 2 * Max2(width, height)),
                        FloatGt(Min2(width, height) * 100, 75 * Max2(width, height))),
               {Negative},
        Branch(FloatLt(1600 * closure, 9 * (width + height) * (width + height)), {Negative},
        Branch(FloatLt(625 * mid_offset, 4 * (width + height) * (width + height)), {Negative},
        {Positive(center)})))))

check_crescent_shape(points) ==
    IF Len(points) < 8 THEN {Negative}
    ELSE
    LET width == Width(points)
        height == Height(points)
        center == BoxCenter(points)
        start_point == points[1]
        end_point == points[Len(points)]
        closure == SqClosure(points)
        mid_idx == Len(points) \div 2
        mid_point == points[mid_idx + 1]
        \* (line_mx, line_my), doubled
        line_m == <<start_point[1] + end_point[1], start_point[2] + end_point[2]>>
        \* mid_offset, doubled and squared
        mid_offset == SqDistance2d(<<2 * mid_point[1], 2 * mid_point[2]>>, line_m)
    IN  Branch(EitherOf(FloatLt(width * 100, 3 * Scale),
                        FloatLt(height * 100, 3 * Scale)), {Negative},
        \* aspect_ratio = min(width, height) / max(width, height)
        Dividing(Max2(width, height),
        \* aspect_ratio < 0.2 or aspect_ratio > 0.75
        Branch(EitherOf(FloatLt(Min2(width, height) * 10, 2 * Max2(width, height)),
                        FloatGt(Min2(width, height) * 100, 75 * Max2(width, height))),
               {Negative},
        \* closure_distance < avg_size * 0.15, avg_size = (width + height) / 2
        Branch(FloatLt(1600 * closure, 9 * (width + height) * (width + height)), {Negative},
        \* mid_offset < avg_size * 0.08
        Branch(FloatLt(625 * mid_offset, 4 * (width + height) * (width + height)), {Negative},
        {Positive(center)})))))

-----------------------------------------------------------------------------
(* The environment: what the camera and the hand detector can deliver.     *)
(* The fingertip follows a trajectory of the library, one step per         *)
(* POINTING frame (on every other frame the fingertip is not recorded);    *)
(* the trajectory "free" lets every fingertip be any point of FreeTips.    *)

Ring == <<<<65, 50>>, <<63, 58>>, <<58, 63>>, <<50, 65>>, <<42, 63>>, <<37, 58>>,
          <<35, 50>>, <<37, 43>>, <<42, 37>>, <<50, 35>>, <<58, 37>>, <<63, 42>>,
          <<65, 50>>>>

Oval == <<<<70, 50>>, <<67, 57>>, <<59, 62>>, <<49, 64>>, <<39, 62>>, <<32, 56>>,
          <<30, 48>>, <<34, 41>>, <<43, 37>>, <<53, 36>>, <<63, 39>>, <<68, 44>>>>

Arc == <<<<70, 50>>, <<68, 54>>, <<64, 57>>, <<58, 59>>, <<50, 60>>, <<42, 59>>,
         <<36, 57>>, <<32, 54>>, <<30, 50>>>>

Line == <<<<30, 30>>, <<34, 33>>, <<38, 36>>, <<42, 39>>, <<46, 42>>, <<50, 45>>,
          <<54, 48>>, <<58, 51>>, <<62, 54>>, <<66, 57>>, <<70, 60>>>>

Loop10 == <<<<50, 60>>, <<48, 66>>, <<42, 70>>, <<35, 69>>, <<31, 63>>, <<31, 57>>,
            <<35, 51>>, <<42, 50>>, <<48, 54>>, <<50, 60>>>>

Drawn == [ring |-> Ring, oval |-> Oval, arc |-> Arc, line |-> Line, loop10 |-> Loop10]

ShortStrokes == {"ring", "oval", "arc", "line", "loop10", "free"}

FreeTips == {<<40, 40>>, <<40, 47>>, <<50, 40>>}

\* the long trajectory: MaxTrail distinct points, row by row
LongPoint(i) == <<30 + ((i - 1) % 16), 40 + ((i - 1) \div 16)>>

\* the trajectory "rest" has no point: the hand stays at RestTip
RestTip == <<50, 50>>

StrokeLen(s) == IF s = "long" THEN MaxTrail
                ELSE IF s = "free" THEN MaxFree
                ELSE IF s = "rest" THEN 0
                ELSE Len(Drawn[s])

\* where the fingertip is once n points of trajectory s were recorded
PenTips(s, n) ==
    IF s = "free" THEN FreeTips
    ELSE IF s = "rest" THEN {RestTip}
    ELSE LET i == Min2(n + 1, StrokeLen(s))
         IN  IF s = "long" THEN {LongPoint(i)} ELSE {Drawn[s][i]}

Fingers == {"index", "middle", "ring", "pinky"}

TipId == [index |-> 8, middle |-> 12, ring |-> 16, pinky |-> 20]

PipId == [index |-> 6, middle |-> 10, ring |-> 14, pinky |-> 18]

Sideways == [index |-> 0, middle |-> 2, ring |-> 4, pinky |-> 6]

Curls == [Fingers -> {"extended", "flexed"}]

\* index alone, no finger, all four fingers
ThreePoses == {[f \in Fingers |-> IF f = "index" THEN "extended" ELSE "flexed"],
               [f \in Fingers |-> "flexed"],
               [f \in Fingers |-> "extended"]}

\* index alone, no finger
TwoPoses == {[f \in Fingers |-> IF f = "index" THEN "extended" ELSE "flexed"],
             [f \in Fingers |-> "flexed"]}

\* the same with two more ways to hold a finger: "level", the tip as far
\* from the wrist as the pip joint, and "forward", the finger stretched
\* towards the camera
FourWayCurls == [Fingers -> {"extended", "flexed", "level", "forward"}]

\* no finger
FistOnly == {[f \in Fingers |-> "flexed"]}

\* a landmark relative to the wrist: the pip joint is 4 up, an extended tip
\* 8 up, a flexed tip curled back to 2 up and 2 towards the camera, a level
\* tip 4 towards the camera, a forward tip 3 up and 6 towards the camera
Offset(f, joint, curl) ==
    IF joint = "pip" THEN [x |-> Sideways[f], y |-> -4, z |-> 0]
    ELSE IF curl[f] = "extended" THEN [x |-> Sideways[f], y |-> -8, z |-> 0]
    ELSE IF curl[f] = "level" THEN [x |-> Sideways[f], y |-> 0, z |-> -4]
    ELSE IF curl[f] = "forward" THEN [x |-> Sideways[f], y |-> -3, z |-> -6]
    ELSE [x |-> Sideways[f], y |-> -2, z |-> -2]

\* the landmarks of a hand whose index fingertip (landmark 8) is at tip
Hand(tip, curl) ==
    LET o == Offset("index", "tip", curl)
        wrist == [x |-> tip[1] - o.x, y |-> tip[2] - o.y, z |-> 0 - o.z]
        At(f, joint) == LET d == Offset(f, joint, curl)
                        IN  [x |-> wrist.x + d.x, y |-> wrist.y + d.y, z |-> wrist.z + d.z]
    IN  [id \in {0, 6, 8, 10, 12, 14, 16, 18, 20} |->
            IF id = 0 THEN wrist
            ELSE LET f == CHOOSE g \in Fingers : id \in {TipId[g], PipId[g]}
                 IN  At(f, IF id = TipId[f] THEN "tip" ELSE "pip")]

\* hand_result.hand_landmarks for the next frame: no hand, or one hand
Detections(s, n) ==
    {<<>>} \cup
    {<<Hand(tip, curl)>> : tip \in PenTips(s, n),
        curl \in {c \in world.curls :
                    detect_index_pointing(Hand(<<0, 0>>, c)) => n < StrokeLen(s)}}

NoFrame == [hand_landmarks |-> <<>>]

NoChecks == [crescent |-> "not run", circle |-> "not run"]

Verdict(result) ==
    IF result.zero_division THEN "zero division"
    ELSE IF result.ok THEN "pass" ELSE "fail"

-----------------------------------------------------------------------------
(* process_frame, app.py:217-325: the drawing state machine.  The face     *)
(* landmarks, the overlay drawing and the data dictionary do not touch the *)
(* drawing state and are left out.  hand_landmarker is set by              *)
(* initialize_mediapipe before camera_loop's first frame.                  *)

Outcome(state, points, fruit, banana, chk) ==
    [drawing_state |-> state, drawing_points |-> points,
     spawn_fruit |-> fruit, spawn_banana |-> banana, checks |-> chk]

\* points[-k:]
LastOf(points, k) ==
    IF Len(points) <= k THEN points
    ELSE SubSeq(points, Len(points) - k + 1, Len(points))

\* Appended with the trim forgotten
AppendedUntrimmed(points, tip) == Append(points, tip)

\* Appended trimming with points[:200] in place of points[-200:]
AppendedKeepsOldest(points, tip) ==
    LET grown == Append(points, tip)
    IN  IF Len(grown) > BufferCap THEN SubSeq(grown, 1, BufferCap) ELSE grown

\* app.py:269-271
Appended(points, tip) ==
    LET grown == Append(points, tip)
    IN  IF Len(grown) > BufferCap THEN LastOf(grown, BufferCap) ELSE grown

\* Spawned with the circle tested before the crescent
SpawnedCircleFirst(crescent, circle) ==
    IF circle.ok /\ Truthy(circle.center)
    THEN [fruit |-> circle.center, banana |-> None]
    ELSE IF crescent.ok /\ Truthy(crescent.center)
    THEN [fruit |-> None, banana |-> crescent.center]
    ELSE [fruit |-> None, banana |-> None]

\* Spawned with "if" in place of "elif"
SpawnedBoth(crescent, circle) ==
    [fruit |-> IF circle.ok /\ Truthy(circle.center) THEN circle.center ELSE None,
     banana |-> IF crescent.ok /\ Truthy(crescent.center) THEN crescent.center ELSE None]

\* Spawned with the circle branch lost
SpawnedCrescentOnly(crescent, circle) ==
    IF crescent.ok /\ Truthy(crescent.center)
    THEN [fruit |-> None, banana |-> crescent.center]
    ELSE [fruit |-> None, banana |-> None]

\* app.py:276-279: the two results of a closing frame, as [fruit, banana]
Spawned(crescent, circle) ==
    IF crescent.ok /\ Truthy(crescent.center)
    THEN [fruit |-> None, banana |-> crescent.center]
    ELSE IF circle.ok /\ Truthy(circle.center)
    THEN [fruit |-> circle.center, banana |-> None]
    ELSE [fruit |-> None, banana |-> None]

\* IdleHand entering DRAWING without recording the fingertip
IdleHandEmptyBuffer(points, is_pointing, tip) ==
    IF is_pointing
    THEN {Outcome("DRAWING", points, None, None, NoChecks)}
    ELSE {Outcome("IDLE", points, None, None, NoChecks)}

\* app.py:262-265
IdleHand(points, is_pointing, tip) ==
    IF is_pointing
    THEN {Outcome("DRAWING", <<tip>>, None, None, NoChecks)}
    ELSE {Outcome("IDLE", points, None, None, NoChecks)}

\* DrawingHand closing on every frame that is not POINTING ("else" for "elif is_fist")
DrawingHandClosesOnOther(points, is_pointing, is_fist, tip) ==
    IF is_pointing
    THEN {Outcome("DRAWING", Appended(points, tip), None, None, NoChecks)}
    ELSE {Outcome("IDLE", <<>>, Spawned(crescent, circle).fruit,
                  Spawned(crescent, circle).banana,
                  [crescent |-> Verdict(crescent), circle |-> Verdict(circle)]) :
            crescent \in check_crescent_shape(points),
            circle \in check_circle_shape(points)}

\* DrawingHand with the reset after a FIST forgotten
DrawingHandKeepsDrawing(points, is_pointing, is_fist, tip) ==
    IF is_pointing
    THEN {Outcome("DRAWING", Appended(points, tip), None, None, NoChecks)}
    ELSE IF is_fist
    THEN {Outcome("DRAWING", points, Spawned(crescent, circle).fruit,
                  Spawned(crescent, circle).banana,
                  [crescent |-> Verdict(crescent), circle |-> Verdict(circle)]) :
            crescent \in check_crescent_shape(points),
            circle \in check_circle_shape(points)}
    ELSE {Outcome("DRAWING", points, None, None, NoChecks)}

\* app.py:267-282
DrawingHand(points, is_pointing, is_fist, tip) ==
    IF is_pointing
    THEN {Outcome("DRAWING", Appended(points, tip), None, None, NoChecks)}
    ELSE IF is_fist
    THEN {Outcome("IDLE", <<>>, Spawned(crescent, circle).fruit,
                  Spawned(crescent, circle).banana,
                  [crescent |-> Verdict(crescent), circle |-> Verdict(circle)]) :
            crescent \in check_crescent_shape(points),
            circle \in check_circle_shape(points)}
    ELSE {Outcome("DRAWING", points, None, None, NoChecks)}

\* HandLost with the reset of drawing_points forgotten
HandLostKeepsPoints(state, points) ==
    IF state = "DRAWING" /\ Len(points) > 10
    THEN {Outcome("IDLE", points,
                  IF circle.ok /\ Truthy(circle.center) THEN circle.center ELSE None,
                  None,
                  [crescent |-> "not run", circle |-> Verdict(circle)]) :
            circle \in check_circle_shape(points)}
    ELSE {Outcome("IDLE", points, None, None, NoChecks)}

\* HandLost testing len(drawing_points) >= 10, the circle test's own minimum
HandLostFromTen(state, points) ==
    IF state = "DRAWING" /\ Len(points) >= 10
    THEN {Outcome("IDLE", <<>>,
                  IF circle.ok /\ Truthy(circle.center) THEN circle.center ELSE None,
                  None,
                  [crescent |-> "not run", circle |-> Verdict(circle)]) :
            circle \in check_circle_shape(points)}
    ELSE {Outcome("IDLE", <<>>, None, None, NoChecks)}

\* app.py:285-291
HandLost(state, points) ==
    IF state = "DRAWING" /\ Len(points) > 10
    THEN {Outcome("IDLE", <<>>,
                  IF circle.ok /\ Truthy(circle.center) THEN circle.center ELSE None,
                  None,
                  [crescent |-> "not run", circle |-> Verdict(circle)]) :
            circle \in check_circle_shape(points)}
    ELSE {Outcome("IDLE", <<>>, None, None, NoChecks)}

Fingertip(landmarks) == <<landmarks[8].x, landmarks[8].y>>

process_frame(state, points, hand_landmarks) ==
    IF Len(hand_landmarks) > 0
    THEN LET landmarks == hand_landmarks[1]
             is_pointing == detect_index_pointing(landmarks)
             is_fist == detect_fist(landmarks)
         IN  IF state = "IDLE"
             THEN IdleHand(points, is_pointing, Fingertip(landmarks))
             ELSE DrawingHand(points, is_pointing, is_fist, Fingertip(landmarks))
    ELSE HandLost(state, points)

\* the gesture of a frame, for the history variables and the properties
Gesture(f) ==
    IF Len(f.hand_landmarks) = 0 THEN "NO_HAND"
    ELSE IF detect_index_pointing(f.hand_landmarks[1]) THEN "POINTING"
    ELSE IF detect_fist(f.hand_landmarks[1]) THEN "FIST"
    ELSE "OTHER"

-----------------------------------------------------------------------------
(* camera_loop, app.py:327-415.                                            *)

camera_vars == <<drawing_state, drawing_points, spawn_fruit, spawn_banana, checks,
                 frame, failed_reads, latest_frame, clients_seen, emitted,
                 pre_state, pre_points, trail, stroke>>

\* app.py:334-358: no camera opens, or one does
CameraOpen ==
    /\ pc = "open"
    /\ \E opened \in BOOLEAN :
         IF opened THEN pc' = "read" /\ UNCHANGED is_running
         ELSE pc' = "returned" /\ is_running' = FALSE
    /\ UNCHANGED <<camera_vars, connected_clients, handler, frame_lock, viewer, world>>

\* CameraReadFailed leaving the loop at failed_reads >= 30
CameraReadFailedFromThirty ==
    /\ pc = "read"
    /\ is_running
    /\ failed_reads' = failed_reads + 1
    /\ pc' = IF failed_reads' >= MaxFailedReads THEN "released" ELSE "read"
    /\ UNCHANGED <<drawing_state, drawing_points, spawn_fruit, spawn_banana, checks,
                   frame, is_running, latest_frame, clients_seen, emitted,
                   connected_clients, handler, frame_lock, viewer, pre_state,
                   pre_points, trail, stroke, world>>

\* app.py:363-371: cap.read() fails
CameraReadFailed ==
    /\ pc = "read"
    /\ is_running
    /\ failed_reads' = failed_reads + 1
    /\ pc' = IF failed_reads' > MaxFailedReads THEN "released" ELSE "read"
    /\ UNCHANGED <<drawing_state, drawing_points, spawn_fruit, spawn_banana, checks,
                   frame, is_running, latest_frame, clients_seen, emitted,
                   connected_clients, handler, frame_lock, viewer, pre_state,
                   pre_points, trail, stroke, world>>

\* app.py:363-373: cap.read() delivers a frame; a hand in IDLE may start on
\* any trajectory of the library
CameraRead ==
    /\ pc = "read"
    /\ is_running
    /\ failed_reads' = 0
    /\ \E s \in IF drawing_state = "IDLE" THEN world.strokes ELSE {stroke} :
         /\ stroke' = s
         /\ \E seen \in Detections(s, Len(trail)) :
              frame' = [hand_landmarks |-> seen]
    /\ pc' = "process"
    /\ UNCHANGED <<drawing_state, drawing_points, spawn_fruit, spawn_banana, checks,
                   is_running, latest_frame, clients_seen, emitted,
                   connected_clients, handler, frame_lock, viewer, pre_state,
                   pre_points, trail, world>>

\* app.py:375: process_frame(frame)
CameraProcess ==
    /\ pc = "process"
    /\ \E o \in process_frame(drawing_state, drawing_points, frame.hand_landmarks) :
         /\ drawing_state' = o.drawing_state
         /\ drawing_points' = o.drawing_points
         /\ spawn_fruit' = o.spawn_fruit
         /\ spawn_banana' = o.spawn_banana
         /\ checks' = o.checks
         /\ trail' = IF o.drawing_state = "IDLE" THEN <<>>
                     ELSE IF Gesture(frame) = "POINTING"
                     THEN Append(trail, Fingertip(frame.hand_landmarks[1]))
                     ELSE trail
    /\ pre_state' = drawing_state
    /\ pre_points' = drawing_points
    /\ pc' = "publish"
    /\ UNCHANGED <<frame, is_running, failed_reads, latest_frame, clients_seen,
                   emitted, connected_clients, handler, frame_lock, viewer,
                   stroke, world>>

\* app.py:377: "with frame_lock" waits until the lock is free and takes it
CameraLock ==
    /\ pc = "publish"
    /\ frame_lock = None
    /\ frame_lock' = <<"camera">>
    /\ pc' = "assign"
    /\ UNCHANGED <<camera_vars, is_running, connected_clients, handler, viewer, world>>

\* app.py:378: the processed frame, which shows the state text, is assigned
\* and the with block left
CameraPublish ==
    /\ pc = "assign"
    /\ latest_frame' = <<drawing_state>>
    /\ frame_lock' = None
    /\ pc' = "emit"
    /\ UNCHANGED <<drawing_state, drawing_points, spawn_fruit, spawn_banana, checks,
                   frame, is_running, failed_reads, clients_seen, emitted,
                   connected_clients, handler, viewer, pre_state,
                   pre_points, trail, stroke, world>>

Event(name, data) == [event |-> name, data |-> data]

\* app.py:390-410: the spawn events handed to socketio.emit
SpawnEvents(fruit, banana) ==
    (IF Truthy(fruit) THEN <<Event("spawn_fruit", fruit)>> ELSE <<>>)
        \o (IF Truthy(banana) THEN <<Event("spawn_banana", banana)>> ELSE <<>>)

\* Emitted with the gate at connected_clients > 1
EmittedToSecondClient(clients, due, fruit, banana) ==
    IF clients > 1
    THEN (IF due THEN <<Event("update_data", None)>> ELSE <<>>)
            \o SpawnEvents(fruit, banana)
    ELSE <<>>

\* app.py:380-412: update_data goes out when 0.1 s have passed since the last
Emitted(clients, due, fruit, banana) ==
    IF clients > 0
    THEN (IF due THEN <<Event("update_data", None)>> ELSE <<>>)
            \o SpawnEvents(fruit, banana)
    ELSE <<>>

CameraEmit ==
    /\ pc = "emit"
    /\ clients_seen' = connected_clients
    /\ \E due \in BOOLEAN :
         emitted' = Emitted(connected_clients, due, spawn_fruit, spawn_banana)
    /\ pc' = "read"
    /\ UNCHANGED <<drawing_state, drawing_points, spawn_fruit, spawn_banana, checks,
                   frame, is_running, failed_reads, latest_frame,
                   connected_clients, handler, frame_lock, viewer, pre_state,
                   pre_points, trail, stroke, world>>

\* the camera thread while every read delivers a frame
CameraSteady ==
    CameraOpen \/ CameraRead \/ CameraProcess \/ CameraLock \/ CameraPublish \/ CameraEmit

CameraThread == CameraSteady \/ CameraReadFailed

-----------------------------------------------------------------------------
(* handle_connect, handle_disconnect, app.py:456-467.  Each runs in its    *)
(* own thread; the update of connected_clients is a read and a later       *)
(* write.                                                                  *)

Clients == 1 .. NumClients

Resting(at) == [at |-> at, loaded |-> 0]

\* stale writes can push the counter up without limit; the model stops at MaxCount
ConnectLoad(c) ==
    /\ handler[c].at = "offline"
    /\ connected_clients < MaxCount
    /\ handler' = [handler EXCEPT ![c] = [at |-> "connecting", loaded |-> connected_clients]]
    /\ UNCHANGED <<camera_vars, pc, is_running, connected_clients, frame_lock,
                   viewer, world>>

ConnectStore(c) ==
    /\ handler[c].at = "connecting"
    /\ connected_clients' = handler[c].loaded + 1
    /\ handler' = [handler EXCEPT ![c] = Resting("online")]
    /\ UNCHANGED <<camera_vars, pc, is_running, frame_lock, viewer, world>>

DisconnectLoad(c) ==
    /\ handler[c].at = "online"
    /\ handler' = [handler EXCEPT ![c] = [at |-> "disconnecting", loaded |-> connected_clients]]
    /\ UNCHANGED <<camera_vars, pc, is_running, connected_clients, frame_lock,
                   viewer, world>>

\* DisconnectStore ending the stroke under way
DisconnectStoreEndsStroke(c) ==
    /\ handler[c].at = "disconnecting"
    /\ connected_clients' = Max2(0, handler[c].loaded - 1)
    /\ handler' = [handler EXCEPT ![c] = Resting("offline")]
    /\ drawing_state' = "IDLE"
    /\ drawing_points' = <<>>
    /\ UNCHANGED <<spawn_fruit, spawn_banana, checks, frame, failed_reads, latest_frame,
                   clients_seen, emitted, pre_state, pre_points, trail, stroke,
                   pc, is_running, frame_lock, viewer, world>>

DisconnectStore(c) ==
    /\ handler[c].at = "disconnecting"
    /\ connected_clients' = Max2(0, handler[c].loaded - 1)
    /\ handler' = [handler EXCEPT ![c] = Resting("offline")]
    /\ UNCHANGED <<camera_vars, pc, is_running, frame_lock, viewer, world>>

Handlers == \E c \in world.clients :
    ConnectLoad(c) \/ ConnectStore(c) \/ DisconnectLoad(c) \/ DisconnectStore(c)

-----------------------------------------------------------------------------
(* generate_frames, app.py:417-437, one per GET /video_feed (app.py:448).  *)
(* A viewer is [at, frame, sent]: where the generator is, its local frame, *)
(* and the frame of its latest yield.                                      *)

Viewers == 1 .. NumViewers

Waiting(at) == [at |-> at, frame |-> None, sent |-> None]

viewer_vars == <<camera_vars, pc, is_running, connected_clients, handler, world>>

\* app.py:448-453: the response starts to iterate the generator
ViewerOpen(v) ==
    /\ viewer[v].at = "closed"
    /\ viewer' = [viewer EXCEPT ![v].at = "top"]
    /\ UNCHANGED <<viewer_vars, frame_lock>>

\* ViewerEnter without the lock
ViewerEnterUnlocked(v) ==
    /\ viewer[v].at = "top"
    /\ IF is_running
       THEN viewer' = [viewer EXCEPT ![v].at = "locked"]
       ELSE viewer' = [viewer EXCEPT ![v].at = "done"]
    /\ UNCHANGED <<viewer_vars, frame_lock>>

\* app.py:420-421: "while is_running", then "with frame_lock"
ViewerEnter(v) ==
    /\ viewer[v].at = "top"
    /\ IF is_running
       THEN /\ frame_lock = None
            /\ frame_lock' = <<"viewer", v>>
            /\ viewer' = [viewer EXCEPT ![v].at = "locked"]
       ELSE /\ viewer' = [viewer EXCEPT ![v].at = "done"]
            /\ UNCHANGED frame_lock
    /\ UNCHANGED viewer_vars

\* app.py:422-425: back to the top while nothing is published, else the copy;
\* either way the with block is left
ViewerCopy(v) ==
    /\ viewer[v].at = "locked"
    /\ IF latest_frame = None
       THEN viewer' = [viewer EXCEPT ![v].at = "top"]
       ELSE viewer' = [viewer EXCEPT ![v].at = "encode", ![v].frame = latest_frame]
    /\ frame_lock' = IF frame_lock = <<"viewer", v>> THEN None ELSE frame_lock
    /\ UNCHANGED viewer_vars

\* app.py:427-437: cv2.imencode fails, or the frame is yielded
ViewerYield(v) ==
    /\ viewer[v].at = "encode"
    /\ \E ret \in BOOLEAN :
         IF ret
         THEN viewer' = [viewer EXCEPT ![v].at = "top", ![v].sent = viewer[v].frame]
         ELSE viewer' = [viewer EXCEPT ![v].at = "top"]
    /\ UNCHANGED <<viewer_vars, frame_lock>>

Generators == \E v \in world.viewers :
    ViewerOpen(v) \/ ViewerEnter(v) \/ ViewerCopy(v) \/ ViewerYield(v)

-----------------------------------------------------------------------------
(* Specifications.                                                         *)

\* the threads there are: the clients that connect, the viewers that ask
\* for /video_feed
Nobody == [clients |-> {}, viewers |-> {}]

\* the program with the camera thread at "at", n clients connected, no
\* handler and no generator under way
Situation(state, points, at, shown, strokes, curls, threads, n) ==
    /\ drawing_state = state
    /\ drawing_points = points
    /\ spawn_fruit = None
    /\ spawn_banana = None
    /\ checks = NoChecks
    /\ frame = NoFrame
    /\ pc = at
    /\ is_running = TRUE
    /\ failed_reads = 0
    /\ latest_frame = shown
    /\ clients_seen = 0
    /\ emitted = <<>>
    /\ connected_clients = n
    /\ handler = [c \in Clients |-> Resting(IF c <= n THEN "online" ELSE "offline")]
    /\ frame_lock = None
    /\ viewer = [v \in Viewers |-> Waiting("closed")]
    /\ pre_state = state
    /\ pre_points = points
    /\ trail = points
    /\ stroke = CHOOSE s \in strokes : TRUE
    /\ world = [strokes |-> strokes, curls |-> curls,
                clients |-> threads.clients, viewers |-> threads.viewers]

\* the module as loaded (app.py:26-36), the camera thread not yet started
Loaded(strokes, curls, threads, n) ==
    Situation("IDLE", <<>>, "open", None, strokes, curls, threads, n)

\* the camera thread with a camera that delivers, over the short
\* trajectories, with or without a client
Init == \E n \in {0, 1} : Loaded(ShortStrokes, Curls, Nobody, n)

Next == CameraSteady

Spec == Init /\ [][Next]_vars

\* the same over the long trajectory
InitLong == Loaded({"long"}, Curls, Nobody, 1)

SpecLong == InitLong /\ [][Next]_vars

\* the camera thread and the socket handlers
InitServer == Loaded({"ring"}, TwoPoses, [clients |-> Clients, viewers |-> {}], 0)

NextServer == CameraSteady \/ Handlers

SpecServer == InitServer /\ [][NextServer]_vars

\* the camera thread with a camera whose reads may fail
InitCamera == Loaded({"loop10"}, ThreePoses, Nobody, 1)

NextCamera == CameraThread

SpecCamera == InitCamera /\ [][NextCamera]_vars

\* the camera thread over every way to hold the four fingers
InitGesture == Loaded({"arc"}, FourWayCurls, Nobody, 0)

SpecGesture == InitGesture /\ [][Next]_vars

\* the frame loop of camera_loop, once the camera is open
CameraLoop == CameraRead \/ CameraProcess \/ CameraLock \/ CameraPublish \/ CameraEmit

\* three points of one line of slope 3/4, the middle one halfway
LineTips == {<<30, 30>>, <<50, 45>>, <<70, 60>>}

\* the point at index len // 2 is the midpoint of the chord first - last
ZeroBow(points) ==
    LET first == points[1]
        last == points[Len(points)]
        mid_point == points[(Len(points) \div 2) + 1]
    IN  /\ 2 * mid_point[1] = first[1] + last[1]
        /\ 2 * mid_point[2] = first[2] + last[2]

\* the camera thread in DRAWING, the hand having pointed at up to MaxHeld
\* places of the line, in any order that leaves no bow; the hand now rests
\* as a fist or leaves
InitLine ==
    \E n \in 1 .. MaxHeld : \E points \in [1 .. n -> LineTips] :
        /\ ZeroBow(points)
        /\ Situation("DRAWING", points, "read", <<"DRAWING">>, {"rest"}, FistOnly, Nobody, 0)

SpecLine == InitLine /\ [][CameraLoop]_vars

\* pairs of places one above the other, side by side, and 0.05 apart on a
\* slope
FlatTips == {{<<40, 40>>, <<40, 47>>}, {<<40, 40>>, <<47, 40>>}, {<<40, 40>>, <<44, 43>>}}

\* the camera thread in DRAWING, the hand having pointed up to MaxHeld times
\* at one or two places
InitFlat ==
    \E n \in 1 .. MaxHeld : \E tips \in FlatTips : \E points \in [1 .. n -> tips] :
        Situation("DRAWING", points, "read", <<"DRAWING">>, {"rest"}, FistOnly, Nobody, 0)

SpecFlat == InitFlat /\ [][CameraLoop]_vars

\* the camera thread and the generators of NumViewers /video_feed responses,
\* in front of a hand that makes a fist or leaves
InitStream == Loaded({"rest"}, FistOnly, [clients |-> {}, viewers |-> Viewers], 0)

NextStream == CameraSteady \/ Generators

SpecStream == InitStream /\ [][NextStream]_vars

\* every kind of thread: the camera thread, the handlers of one client and
\* the generator of one /video_feed response
InitThreads == Loaded({"arc"}, TwoPoses, [clients |-> {1}, viewers |-> {1}], 0)

NextThreads == CameraSteady \/ Handlers \/ Generators

SpecThreads == InitThreads /\ [][NextThreads]_vars

-----------------------------------------------------------------------------
(* Properties.  A frame has just been processed when the camera thread is  *)
(* at "publish": frame is the frame, pre_state and pre_points the drawing  *)
(* state process_frame found, and the other variables what it left.        *)

JustProcessed == pc = "publish"

Tip == Fingertip(frame.hand_landmarks[1])

SomeSpawn == Truthy(spawn_fruit) \/ Truthy(spawn_banana)

SpawnsIn(calls) == SelectSeq(calls, LAMBDA e : e.event \in {"spawn_fruit", "spawn_banana"})

Verdicts(results) == {Verdict(r) : r \in results}

\* C1: in every reachable state, drawing_state = 'IDLE' implies that
\* drawing_points is empty.
C1_IdleIsEmpty == drawing_state = "IDLE" => drawing_points = <<>>

\* a frame took a non-empty buffer in DRAWING back to IDLE
C1_Witness ==
    /\ JustProcessed
    /\ pre_state = "DRAWING"
    /\ Len(pre_points) > 0
    /\ drawing_state = "IDLE"

\* C2: after every process_frame call the buffer holds at most 200 points.
C2_AtMostCap == Len(drawing_points) <= BufferCap

\* a POINTING frame arrived with the buffer full and left it full
C2_Witness ==
    /\ JustProcessed
    /\ Gesture(frame) = "POINTING"
    /\ Len(pre_points) = BufferCap
    /\ Len(drawing_points) = BufferCap

\* C3: while the state is DRAWING, after n POINTING frames since DRAWING was
\* entered (other frames in between or not), the buffer is the last
\* min(n, 200) fingertips of those frames, in their order.
C3_SlidingWindow ==
    drawing_state = "DRAWING" =>
        LET n == Len(trail)
            m == IF n < BufferCap THEN n ELSE BufferCap
        IN  /\ Len(drawing_points) = m
            /\ \A i \in 1 .. m : drawing_points[i] = trail[n - m + i]

\* MaxTrail POINTING frames with distinct fingertips: the first ones are gone
C3_Witness ==
    /\ drawing_state = "DRAWING"
    /\ Len(trail) = MaxTrail
    /\ Len(drawing_points) = BufferCap
    /\ drawing_points[1] = trail[MaxTrail - BufferCap + 1]
    /\ drawing_points[1] # trail[1]
    /\ \A i, j \in 1 .. Len(trail) : i # j => trail[i] # trail[j]

\* C4: a FIST frame in DRAWING ends in IDLE with an empty buffer, whatever
\* the classifiers said; it produces a shape event exactly when one of the
\* two tests, run on the buffer the frame found, passed.
C4_FistCloses ==
    (JustProcessed /\ pre_state = "DRAWING" /\ Gesture(frame) = "FIST") =>
        /\ drawing_state = "IDLE"
        /\ drawing_points = <<>>
        /\ checks.crescent \in Verdicts(check_crescent_shape(pre_points))
        /\ checks.circle \in Verdicts(check_circle_shape(pre_points))
        /\ SomeSpawn <=> (checks.crescent = "pass" \/ checks.circle = "pass")

\* a fist closed a buffer that only the circle test accepts, with an event
C4_Witness ==
    /\ JustProcessed
    /\ pre_state = "DRAWING"
    /\ Gesture(frame) = "FIST"
    /\ checks = [crescent |-> "fail", circle |-> "pass"]
    /\ Truthy(spawn_fruit)
    /\ drawing_state = "IDLE"

\* C5: a frame without a hand in DRAWING ends in IDLE with an empty buffer;
\* the crescent test is not run, the circle test is run exactly when the
\* buffer holds more than 10 points, no banana is produced, and a fruit is
\* produced exactly when the buffer holds more than 10 points and passes
\* the circle test.
C5_HandLoss ==
    (JustProcessed /\ pre_state = "DRAWING" /\ Gesture(frame) = "NO_HAND") =>
        /\ drawing_state = "IDLE"
        /\ drawing_points = <<>>
        /\ checks.crescent = "not run"
        /\ checks.circle # "not run" <=> Len(pre_points) > 10
        /\ checks.circle # "not run" =>
               checks.circle \in Verdicts(check_circle_shape(pre_points))
        /\ spawn_banana = None
        /\ Truthy(spawn_fruit) <=> (Len(pre_points) > 10 /\ checks.circle = "pass")
        /\ Truthy(spawn_fruit) => spawn_fruit = BoxCenter(pre_points)

\* the hand was lost over a closed ring of more than 10 points: a fruit
C5_Witness ==
    /\ JustProcessed
    /\ pre_state = "DRAWING"
    /\ Gesture(frame) = "NO_HAND"
    /\ Len(pre_points) > 10
    /\ Truthy(spawn_fruit)
    /\ drawing_state = "IDLE"

\* C6: a POINTING frame in IDLE moves to DRAWING with the buffer the one
\* fingertip of that frame, and produces no event.
C6_StartDrawing ==
    (JustProcessed /\ pre_state = "IDLE" /\ Gesture(frame) = "POINTING") =>
        /\ drawing_state = "DRAWING"
        /\ drawing_points = <<Tip>>
        /\ ~SomeSpawn

\* IDLE, then a hand pointing at (0.4, 0.4)
C6_Witness ==
    /\ JustProcessed
    /\ pre_state = "IDLE"
    /\ Gesture(frame) = "POINTING"
    /\ drawing_points = <<<<40, 40>>>>
    /\ drawing_state = "DRAWING"

\* C7: IDLE with a hand that is not POINTING, IDLE with no hand, and DRAWING
\* with a hand that is neither POINTING nor FIST leave the state and the
\* buffer as they were and produce no event.
C7_NoOpRows ==
    (/\ JustProcessed
     /\ \/ pre_state = "IDLE" /\ Gesture(frame) # "POINTING"
        \/ pre_state = "DRAWING" /\ Gesture(frame) = "OTHER") =>
        /\ drawing_state = pre_state
        /\ drawing_points = pre_points
        /\ ~SomeSpawn

\* a hand that neither points nor makes a fist, over a buffer of 8 points
\* that the crescent test accepts
C7_Witness ==
    /\ JustProcessed
    /\ pre_state = "DRAWING"
    /\ Gesture(frame) = "OTHER"
    /\ Len(pre_points) = 8
    /\ Positive(BoxCenter(pre_points)) \in check_crescent_shape(pre_points)
    /\ drawing_points = pre_points

\* C8: when a FIST frame closes a buffer that passes both the crescent and
\* the circle test, a banana with the crescent's centre is produced and no
\* fruit.
C8_CrescentFirst ==
    (/\ JustProcessed
     /\ pre_state = "DRAWING"
     /\ Gesture(frame) = "FIST"
     /\ checks = [crescent |-> "pass", circle |-> "pass"]) =>
        /\ spawn_banana = BoxCenter(pre_points)
        /\ spawn_fruit = None

\* a fist over the 12-point oval, which passes both tests
C8_Witness ==
    /\ JustProcessed
    /\ pre_state = "DRAWING"
    /\ Gesture(frame) = "FIST"
    /\ checks = [crescent |-> "pass", circle |-> "pass"]
    /\ Len(pre_points) = 12
    /\ Truthy(spawn_banana)

\* C9: a frame produces at most one shape event: process_frame never
\* returns both a fruit and a banana, and camera_loop emits at most one
\* spawn event per frame.
C9_AtMostOneEvent ==
    /\ ~(Truthy(spawn_fruit) /\ Truthy(spawn_banana))
    /\ Len(SpawnsIn(emitted)) <= 1

\* both tests passed, a client is connected, and one spawn event went out
C9_Witness ==
    /\ pc = "read"
    /\ checks = [crescent |-> "pass", circle |-> "pass"]
    /\ Len(SpawnsIn(emitted)) = 1

\* C10 as claimed: every shape result of a frame is emitted in the same
\* iteration, whatever connected_clients is.
C10_AlwaysEmitted ==
    pc = "read" => SpawnsIn(emitted) = SpawnEvents(spawn_fruit, spawn_banana)

\* C10: every shape result of a frame is emitted in the same iteration
\* (spawn_fruit for a circle, spawn_banana for a crescent, with the centre)
\* when camera_loop reads a connected_clients above 0 at app.py:380; when it
\* reads 0 nothing is emitted and the result is dropped.
C10_EmittedToClients ==
    pc = "read" =>
        IF clients_seen > 0
        THEN SpawnsIn(emitted) = SpawnEvents(spawn_fruit, spawn_banana)
        ELSE emitted = <<>>

\* a banana result emitted while a client was connected
C10_Witness ==
    /\ pc = "read"
    /\ clients_seen > 0
    /\ Truthy(spawn_banana)
    /\ SpawnsIn(emitted) = <<Event("spawn_banana", spawn_banana)>>

\* C11: a frame that finds fewer than 8 points in the buffer produces and
\* emits no shape event, and one that finds fewer than 10 produces no
\* fruit; IDLE -> POINTING -> FIST (a buffer of 1 point) ends in IDLE with
\* an empty buffer and no event.
C11_MinimumPoints ==
    /\ Len(pre_points) < 8 => ~SomeSpawn
    /\ Len(pre_points) < 10 => spawn_fruit = None
    /\ (pc \in {"read", "process"} /\ Len(pre_points) < 8) => SpawnsIn(emitted) = <<>>
    /\ (/\ JustProcessed
        /\ pre_state = "DRAWING"
        /\ Len(pre_points) = 1
        /\ Gesture(frame) = "FIST") =>
            /\ drawing_state = "IDLE"
            /\ drawing_points = <<>>
            /\ ~SomeSpawn

\* IDLE, POINTING, FIST: both tests ran on the one point and failed
C11_Witness ==
    /\ JustProcessed
    /\ pre_state = "DRAWING"
    /\ Len(pre_points) = 1
    /\ Gesture(frame) = "FIST"
    /\ checks = [crescent |-> "fail", circle |-> "fail"]
    /\ drawing_state = "IDLE"
    /\ ~SomeSpawn

\* how the four fingers of the hand in the frame are held: the curl the
\* camera delivered
HeldCurl ==
    LET landmarks == frame.hand_landmarks[1]
        wrist == landmarks[0]
    IN  [f \in Fingers |->
            CHOOSE way \in {"extended", "flexed", "level", "forward"} :
                LET d == Offset(f, "tip", [g \in Fingers |-> way])
                IN  landmarks[TipId[f]] =
                        [x |-> wrist.x + d.x, y |-> wrist.y + d.y, z |-> wrist.z + d.z]]

\* the fingers held out: straight up or towards the camera
Up(f) == HeldCurl[f] \in {"extended", "forward"}

\* C12: for every combination of the four fingers held out or not, the
\* gesture is POINTING exactly when the index is out and the other three
\* are not, FIST exactly when none is out, OTHER in every other case, and
\* the two detectors are never both true.
C12_GestureTable ==
    Len(frame.hand_landmarks) > 0 =>
        LET landmarks == frame.hand_landmarks[1]
            others == Fingers \ {"index"}
        IN  /\ Gesture(frame) = "POINTING" <=> (Up("index") /\ \A f \in others : ~Up(f))
            /\ Gesture(frame) = "FIST" <=> \A f \in Fingers : ~Up(f)
            /\ Gesture(frame) = "OTHER" <=>
                   \/ Up("index") /\ \E f \in others : Up(f)
                   \/ ~Up("index") /\ \E f \in others : Up(f)
            /\ detect_index_pointing(landmarks) <=> (Up("index") /\ \A f \in others : ~Up(f))
            /\ detect_fist(landmarks) <=> \A f \in Fingers : ~Up(f)
            /\ ~(detect_index_pointing(landmarks) /\ detect_fist(landmarks))

\* a hand with only the pinky out was processed: neither POINTING nor FIST
C12_Witness ==
    /\ JustProcessed
    /\ Len(frame.hand_landmarks) > 0
    /\ \A f \in Fingers : Up(f) <=> f = "pinky"
    /\ Gesture(frame) = "OTHER"

\* the tip of finger f is exactly as far from the wrist as its pip joint
Level(landmarks, f) ==
    SqDistance(landmarks[TipId[f]], landmarks[0]) = SqDistance(landmarks[PipId[f]], landmarks[0])

\* C17: a finger counts as extended exactly when its tip is farther from the
\* wrist than its pip joint, in 3D; with the two distances equal it counts
\* as flexed, so a hand whose four fingers all have equal tip and pip
\* distance is a FIST.
C17_StrictlyFarther ==
    Len(frame.hand_landmarks) > 0 =>
        LET landmarks == frame.hand_landmarks[1]
            extended(f) == is_finger_extended(landmarks, TipId[f], PipId[f], landmarks[0])
        IN  /\ \A f \in Fingers :
                 /\ HeldCurl[f] \in {"extended", "forward"} => extended(f)
                 /\ HeldCurl[f] \in {"flexed", "level"} => ~extended(f)
                 /\ Level(landmarks, f) => ~extended(f)
            /\ (\A f \in Fingers : Level(landmarks, f)) => Gesture(frame) = "FIST"

\* a hand with four level fingers closed a drawing as a FIST does
C17_Witness ==
    /\ JustProcessed
    /\ Len(frame.hand_landmarks) > 0
    /\ \A f \in Fingers : HeldCurl[f] = "level" /\ Level(frame.hand_landmarks[1], f)
    /\ Gesture(frame) = "FIST"
    /\ pre_state = "DRAWING"
    /\ drawing_state = "IDLE"

\* every two points are on one line with the first
Collinear(points) ==
    \A j, k \in 1 .. Len(points) :
        (points[j][1] - points[1][1]) * (points[k][2] - points[1][2])
            = (points[j][2] - points[1][2]) * (points[k][1] - points[1][1])

\* every point lies between the first and the last: a stroke that does not
\* run past its ends
Straight(points) ==
    LET first == points[1]
        last == points[Len(points)]
    IN  \A i \in 1 .. Len(points) : \A k \in {1, 2} :
            /\ Min2(first[k], last[k]) <= points[i][k]
            /\ points[i][k] <= Max2(first[k], last[k])

Closing == JustProcessed /\ pre_state = "DRAWING" /\ Gesture(frame) \in {"FIST", "NO_HAND"}

\* C13 as claimed: a collinear trajectory with zero bow is classified NONE,
\* for every number and placement of its points.
C13_CollinearIsNone ==
    (Closing /\ Collinear(pre_points) /\ ZeroBow(pre_points)) =>
        /\ checks.crescent # "pass"
        /\ checks.circle # "pass"
        /\ ~SomeSpawn

\* C13: a collinear trajectory with zero bow never passes the crescent
\* test, for every number and placement of its points; it is classified
\* NONE when it has fewer than 10 points or when all its points lie between
\* its first and its last point.
C13_CollinearNoCrescent ==
    (Closing /\ Collinear(pre_points) /\ ZeroBow(pre_points)) =>
        /\ checks.crescent # "pass"
        /\ spawn_banana = None
        /\ (Len(pre_points) < 10 \/ Straight(pre_points)) =>
               /\ checks.circle # "pass"
               /\ ~SomeSpawn

\* a fist closed a straight stroke of 10 points from one end of the line to
\* the other: both tests ran and failed
C13_Witness ==
    /\ Closing
    /\ Gesture(frame) = "FIST"
    /\ Len(pre_points) = 10
    /\ Collinear(pre_points) /\ ZeroBow(pre_points) /\ Straight(pre_points)
    /\ pre_points[1] = <<30, 30>>
    /\ pre_points[10] = <<70, 60>>
    /\ checks = [crescent |-> "fail", circle |-> "fail"]
    /\ ~SomeSpawn

\* a single point, all points identical, or a box without width or height
Degenerate(points) == Width(points) = 0 \/ Height(points) = 0

\* C14: on every buffer the state machine holds, neither classifier
\* evaluates a division by zero, and on a degenerate buffer (a single
\* point, all points identical, a bounding box of zero width or height)
\* both return (False, None).
C14_NoZeroDivision ==
    /\ checks.crescent # "zero division"
    /\ checks.circle # "zero division"
    /\ Len(drawing_points) > 0 =>
         \A result \in check_circle_shape(drawing_points)
                         \cup check_crescent_shape(drawing_points) :
            /\ ~result.zero_division
            /\ Degenerate(drawing_points) => result = Negative

\* a fist closed a buffer of MaxHeld times the same point: both tests ran
\* and failed
C14_Witness ==
    /\ Closing
    /\ Gesture(frame) = "FIST"
    /\ Len(pre_points) >= 10
    /\ \A i \in 1 .. Len(pre_points) : pre_points[i] = pre_points[1]
    /\ checks = [crescent |-> "fail", circle |-> "fail"]
    /\ ~SomeSpawn

\* c, doubled, is the middle of the bounding box of the points
IsBoxMiddle(c, points) ==
    \A k \in {1, 2} : \E i, j \in 1 .. Len(points) :
        /\ c[k] = points[i][k] + points[j][k]
        /\ \A m \in 1 .. Len(points) :
               points[i][k] <= points[m][k] /\ points[m][k] <= points[j][k]

\* c, doubled, has both coordinates in [0, 1]
InUnitSquare(c) == \A k \in {1, 2} : 0 <= c[k] /\ c[k] <= 2 * Scale

\* C16: a classifier result carries a centre exactly when the test passed,
\* and the centre is the middle of the bounding box of the buffer; with
\* every buffered point in [0, 1] every produced and every emitted event
\* has x and y in [0, 1].
C16_CenterOfBox ==
    /\ \A i \in 1 .. Len(drawing_points) : InUnitSquare(<<2 * drawing_points[i][1],
                                                          2 * drawing_points[i][2]>>)
    /\ Len(drawing_points) > 0 =>
         \A result \in check_circle_shape(drawing_points)
                         \cup check_crescent_shape(drawing_points) :
            /\ Truthy(result.center) <=> result.ok
            /\ result.ok => IsBoxMiddle(result.center, drawing_points)
    /\ \A c \in {spawn_fruit, spawn_banana} :
         Truthy(c) => IsBoxMiddle(c, pre_points) /\ InUnitSquare(c)
    /\ \A n \in 1 .. Len(emitted) :
         emitted[n].event # "update_data" => InUnitSquare(emitted[n].data)

\* the ring around (0.5, 0.5) gave a fruit at (0.5, 0.5), and it was emitted
C16_Witness ==
    /\ pc = "read"
    /\ Len(pre_points) = 13
    /\ spawn_fruit = <<Scale, Scale>>
    /\ IsBoxMiddle(spawn_fruit, pre_points)
    /\ emitted # <<>>
    /\ emitted[Len(emitted)] = Event("spawn_fruit", spawn_fruit)

\* C18: a shape event is produced only by a frame that starts in DRAWING
\* and ends in IDLE with an empty buffer: no frame that starts in IDLE and
\* no frame that leaves the state DRAWING produces one; and DRAWING is
\* entered from IDLE only by a POINTING frame, so that between two events
\* the state has been IDLE with an empty buffer and a POINTING frame has
\* started a new stroke.
C18_OneEventPerStroke ==
    /\ SomeSpawn =>
         /\ pre_state = "DRAWING"
         /\ Len(pre_points) > 0
         /\ pc # "process" => drawing_state = "IDLE" /\ drawing_points = <<>>
    /\ (JustProcessed /\ pre_state = "IDLE") => ~SomeSpawn
    /\ (JustProcessed /\ drawing_state = "DRAWING") => ~SomeSpawn
    /\ (JustProcessed /\ pre_state = "IDLE" /\ drawing_state = "DRAWING") =>
         /\ Gesture(frame) = "POINTING"
         /\ drawing_points = <<Tip>>

\* a fist closed a crescent of 9 points: a banana, and the state is IDLE
C18_Witness ==
    /\ JustProcessed
    /\ Gesture(frame) = "FIST"
    /\ pre_state = "DRAWING"
    /\ Len(pre_points) = 9
    /\ Truthy(spawn_banana)
    /\ drawing_state = "IDLE"
    /\ drawing_points = <<>>

drawing_vars == <<drawing_state, drawing_points, spawn_fruit, spawn_banana, checks,
                  pre_state, pre_points>>

\* C19: camera_loop leaves its frame loop for read failures only at a
\* failed read that takes failed_reads above 30; failed_reads changes only
\* by a failed read, which adds 1, calls no process_frame and leaves the
\* drawing state alone, and by a successful read, which sets it to 0 before
\* process_frame is called.
C19_ReadFailures ==
    [][/\ pc' = "released" =>
            /\ pc = "read"
            /\ failed_reads' = failed_reads + 1
            /\ failed_reads' > MaxFailedReads
       /\ (pc = "read" /\ pc' = "read") =>
            /\ failed_reads' = failed_reads + 1
            /\ failed_reads' <= MaxFailedReads
       /\ failed_reads' > failed_reads =>
            /\ pc' \in {"read", "released"}
            /\ UNCHANGED drawing_vars
       /\ pc' = "process" => failed_reads' = 0
       /\ failed_reads' # failed_reads =>
            failed_reads' = 0 \/ failed_reads' = failed_reads + 1]_vars

\* the loop was left after 31 failed reads in a row, in the middle of a
\* stroke, frames having been processed before
C19_Witness ==
    /\ pc = "released"
    /\ failed_reads = MaxFailedReads + 1
    /\ latest_frame # None
    /\ drawing_state = "DRAWING"
    /\ Len(drawing_points) > 0

\* C20: latest_frame is assigned by camera_loop and copied by a generator
\* only while that thread holds frame_lock, so no generator copies it while
\* camera_loop assigns it (nor while another generator copies it); and a
\* generator encodes and yields only a frame that camera_loop has
\* published, never None.
C20_FrameLock ==
    /\ pc = "assign" => frame_lock = <<"camera">>
    /\ \A v \in Viewers :
         /\ viewer[v].at = "locked" => frame_lock = <<"viewer", v>>
         /\ ~(viewer[v].at = "locked" /\ pc = "assign")
         /\ \A w \in Viewers \ {v} : ~(viewer[v].at = "locked" /\ viewer[w].at = "locked")
         /\ viewer[v].at = "encode" => viewer[v].frame # None
         /\ viewer[v].sent # None => latest_frame # None /\ viewer[v].sent = viewer[v].frame
    /\ frame_lock # None =>
         \/ pc = "assign"
         \/ \E v \in Viewers : viewer[v].at = "locked"

\* one generator has yielded a published frame; another holds the lock for
\* its copy while camera_loop waits to assign the next frame
C20_Witness ==
    /\ pc = "publish"
    /\ latest_frame # None
    /\ \E v, w \in Viewers :
         /\ viewer[v].at = "locked"
         /\ frame_lock = <<"viewer", v>>
         /\ viewer[w].sent # None

\* C15: drawing_state and drawing_points change only in a step of the
\* camera thread through process_frame; a step of a socket handler or of a
\* generate_frames generator never changes them.
C15_SingleWriter ==
    [][/\ <<drawing_state, drawing_points>>' # <<drawing_state, drawing_points>> =>
            /\ pc = "process"
            /\ pc' = "publish"
            /\ UNCHANGED <<handler, viewer, connected_clients, frame_lock>>
       /\ (handler' # handler \/ viewer' # viewer \/ connected_clients' # connected_clients) =>
            UNCHANGED <<drawing_state, drawing_points, pc>>]_vars

\* process_frame has just started a stroke while a connect handler was
\* between its read and its write and a generator was encoding a frame
C15_Witness ==
    /\ JustProcessed
    /\ pre_state = "IDLE"
    /\ drawing_state = "DRAWING"
    /\ Len(drawing_points) = 1
    /\ handler[1].at = "connecting"
    /\ viewer[1].at = "encode"

\* the clients that are connected
Online == {c \in Clients : handler[c].at \in {"online", "disconnecting"}}

NoHandlerInProgress == \A c \in Clients : handler[c].at \in {"online", "offline"}

\* C21: under every interleaving of handle_connect and handle_disconnect,
\* connected_clients is never negative, and whenever no handler is in
\* progress it is the number of clients that are connected.
C21_CountsClients ==
    /\ connected_clients >= 0
    /\ NoHandlerInProgress => connected_clients = Cardinality(Online)

=============================================================================
